---- MODULE Spec2Model ----
(***************************************************************************)
(* Conway's Game of Life on a toroidal grid: a model of src/src/lib.rs.    *)
(*                                                                         *)
(* A Universe is (width, height, cells); cells is the row-major Vec<Cell>, *)
(* modelled as a function on 0 .. len-1 whose values are the u8            *)
(* discriminants of Cell (Dead = 0, Alive = 1).  The operations are        *)
(* Universe::new, Universe::tick and Universe::render.                     *)
(*                                                                         *)
(* Four specifications are given.  Spec is the program as it stands: the   *)
(* universes are built by Universe::new (64 x 64, seeded from the flat     *)
(* index) and then ticked and rendered.  SpecGrid applies the same tick    *)
(* and render to every small grid of a bounded family, to check what       *)
(* live_neighbor_count, tick and render do as functions of the grid.       *)
(* SpecStep runs tick on those grids one loop iteration at a time, to      *)
(* check what holds in the middle of a pass.  SpecIndex applies get_index  *)
(* to coordinates inside and outside the grid.                             *)
(*                                                                         *)
(* Integer widths: all values stay far below 2^32 (the largest index is    *)
(* 64 * 64 - 1) and the u8 count is at most 8, so u32 / u8 / usize         *)
(* arithmetic is modelled by plain integers.                               *)
(***************************************************************************)
EXTENDS Integers, Sequences, FiniteSets, TLC

VARIABLES
    width,      \* Universe.width  (u32)
    height,     \* Universe.height (u32)
    cells,      \* Universe.cells  (Vec<Cell>), a function on 0 .. len-1
    rendered,   \* the String returned by the last call if it was render, else <<>>
    ticks,      \* number of tick calls made on this universe so far
    twin,       \* a second universe built the same way, with its own tick count
    pc,         \* "idle", or "loop" while a tick call is inside its loops
    next,       \* tick's local `next` buffer while pc = "loop", else <<>>
    loop_row,   \* tick's loop variable `row`
    loop_column,\* tick's loop variable `column`
    probe       \* the last get_index call: its arguments, result and lookup outcome

vars == <<width, height, cells, rendered, ticks, twin, pc, next, loop_row, loop_column, probe>>
loopVars == <<pc, next, loop_row, loop_column>>

----------------------------------------------------------------------------
(* Bounds of the model *)

\* tick calls per universe in Spec
MaxTicks == 7
\* tick calls in SpecGrid
MaxGridTicks == 2
\* SpecGrid: grid sides range over MinDim .. MaxDim
MinDim == 3
MaxDim == 4
\* tick calls in SpecStep
MaxStepTicks == 1
\* SpecIndex: coordinates range up to MaxOver - 1 past the last row / column
MaxOver == 1
\* SpecGrid: the initial pattern lives in a Window x Window square of cells
Window == {0, 1}

----------------------------------------------------------------------------
(* enum Cell *)

Dead == 0
Alive == 1
Cell == {Dead, Alive}

(* Vec<Cell> helpers: length of a 0-based vector *)
VecLen(v) == Cardinality(DOMAIN v)

----------------------------------------------------------------------------
(* Universe::get_index *)
get_index(w, row, column) == row * w + column

(* `if delta_row == 0 && delta_column == 0 { continue; }` *)
SkipsAll(delta_row, delta_column) == FALSE
Skips(delta_row, delta_column) == delta_row = 0 /\ delta_column = 0

(* `let neighbour_row: u32 = (row + delta_row) % self.height;` *)
neighbour_row_clamped(h, row, delta_row) ==
    IF delta_row = h - 1
    THEN (IF row = 0 THEN 0 ELSE row - 1)
    ELSE (IF row + delta_row > h - 1 THEN h - 1 ELSE row + delta_row)
neighbour_row_unwrapped(h, row, delta_row) == row + delta_row
neighbour_row(h, row, delta_row) == (row + delta_row) % h

(* `let neighbour_column: u32 = (column + delta_row) % self.width;`        *)
(* The source adds delta_row, not delta_column; delta_column is unused     *)
(* here and only takes part in the skip test.                              *)
neighbour_column(w, column, delta_row, delta_column) == (column + delta_row) % w

(* Universe::live_neighbor_count: the two nested loops over the arrays     *)
(* [self.height - 1, 0, 1] and [self.width - 1, 0, 1], unrolled in         *)
(* iteration order; term is one pass through the inner loop body.          *)
live_neighbor_count(w, h, c, row, column) ==
    LET term(delta_row, delta_column) ==
            IF Skips(delta_row, delta_column)
            THEN 0
            ELSE c[get_index(w, neighbour_row(h, row, delta_row),
                             neighbour_column(w, column, delta_row, delta_column))]
    IN  term(h - 1, w - 1) + term(h - 1, 0) + term(h - 1, 1)
      + term(0, w - 1) + term(0, 0) + term(0, 1)
      + term(1, w - 1) + term(1, 0) + term(1, 1)

(* The match of Universe::tick, arm by arm, first match wins. *)
next_cell_birth_on_zero(cell, live_neighbors) ==
    CASE cell = Alive /\ live_neighbors < 2 -> Dead
      [] cell = Alive /\ live_neighbors \in {2, 3} -> Alive
      [] cell = Alive /\ live_neighbors > 3 -> Dead
      [] cell = Dead /\ live_neighbors = 0 -> Alive
      [] OTHER -> cell
next_cell_survive_on_four(cell, live_neighbors) ==
    CASE cell = Alive /\ live_neighbors < 2 -> Dead
      [] cell = Alive /\ live_neighbors \in {2, 3} -> Alive
      [] cell = Alive /\ live_neighbors > 4 -> Dead
      [] cell = Dead /\ live_neighbors = 3 -> Alive
      [] OTHER -> cell
next_cell(cell, live_neighbors) ==
    CASE cell = Alive /\ live_neighbors < 2 -> Dead
      [] cell = Alive /\ live_neighbors \in {2, 3} -> Alive
      [] cell = Alive /\ live_neighbors > 3 -> Dead
      [] cell = Dead /\ live_neighbors = 3 -> Alive
      [] OTHER -> cell

(* The arm of that match that fires, numbered 1..5 in source order; arm 5  *)
(* is the catch-all `(otherwise, _) => otherwise`.                         *)
match_arm(cell, live_neighbors) ==
    CASE cell = Alive /\ live_neighbors < 2 -> 1
      [] cell = Alive /\ live_neighbors \in {2, 3} -> 2
      [] cell = Alive /\ live_neighbors > 3 -> 3
      [] cell = Dead /\ live_neighbors = 3 -> 4
      [] OTHER -> 5

(* Universe::tick as a function of the universe: `next` starts as a clone  *)
(* of cells; every (row, column) of 0..height x 0..width is overwritten at *)
(* get_index(row, column), reading only self.cells; then cells = next.     *)
tick_dropping_row(w, h, c) ==
    [idx \in 0 .. VecLen(c) - w - 1 |->
        next_cell(c[idx], live_neighbor_count(w, h, c, idx \div w, idx % w))]
tick(w, h, c) ==
    LET written == {get_index(w, row, column) : row \in 0 .. h - 1, column \in 0 .. w - 1}
    IN  [idx \in DOMAIN c |->
            IF idx \in written
            THEN next_cell(c[idx], live_neighbor_count(w, h, c, idx \div w, idx % w))
            ELSE c[idx]]

----------------------------------------------------------------------------
(* Universe::new *)

NewWidth == 64
NewHeight == 64

seed_and(i) == IF i % 2 = 0 /\ i % 7 = 0 THEN Alive ELSE Dead
seed(i) == IF i % 2 = 0 \/ i % 7 = 0 THEN Alive ELSE Dead

(* The universes Universe::new can return: exactly one (the seeding is a   *)
(* function of the index alone).                                           *)
new_random_cell ==
    {[width |-> NewWidth, height |-> NewHeight,
      cells |-> [i \in 0 .. NewWidth * NewHeight - 1 |-> IF i = 1 THEN b ELSE seed(i)]] :
        b \in Cell}
new ==
    {[width |-> NewWidth, height |-> NewHeight,
      cells |-> [i \in 0 .. NewWidth * NewHeight - 1 |-> seed(i)]]}

----------------------------------------------------------------------------
(* impl fmt::Display for Universe, and Universe::render *)

BlackSquare == "◼"
WhiteSquare == "◻"
LineBreak == "\n"

(* `let symbol = if cell == Cell::Dead { '◻' } else { '◼' };` *)
symbol_swapped(cell) == IF cell = Dead THEN BlackSquare ELSE WhiteSquare
symbol(cell) == IF cell = Dead THEN WhiteSquare ELSE BlackSquare

(* slice::chunks(n): consecutive chunks of n elements, the last one        *)
(* shorter when n does not divide the length.  Chunk k as a sequence.      *)
NumChunks(c, n) == (VecLen(c) + n - 1) \div n
Chunk(c, n, k) ==
    LET lo == k * n
        hi == IF lo + n < VecLen(c) THEN lo + n ELSE VecLen(c)
    IN  [p \in 1 .. hi - lo |-> c[lo + p - 1]]

(* One `for line in chunks` iteration: a glyph per cell, then writeln!. *)
fmt_line(line) == [p \in 1 .. Len(line) |-> symbol(line[p])] \o <<LineBreak>>

(* fmt: the lines of chunks k, k+1, ... in order. *)
RECURSIVE fmt_from(_, _, _)
fmt_from(c, w, k) ==
    IF k >= NumChunks(c, w) THEN <<>>
    ELSE fmt_line(Chunk(c, w, k)) \o fmt_from(c, w, k + 1)

fmt(w, c) == fmt_from(c, w, 0)

(* Universe::render: self.to_string() *)
render(w, c) == fmt(w, c)

----------------------------------------------------------------------------
(* Actions *)

(* universe.tick(); the model stops after max calls *)
Tick(max) ==
    /\ ticks < max
    /\ cells' = tick(width, height, cells)
    /\ ticks' = ticks + 1
    /\ rendered' = <<>>
    /\ UNCHANGED <<width, height, twin, loopVars, probe>>

(* universe.render() *)
Render_ticking ==
    /\ rendered' = render(width, cells)
    /\ cells' = tick(width, height, cells)
    /\ UNCHANGED <<width, height, ticks, twin, loopVars, probe>>
Render ==
    /\ rendered' = render(width, cells)
    /\ UNCHANGED <<width, height, cells, ticks, twin, loopVars, probe>>

(* twin.tick() *)
TickTwin ==
    /\ twin.ticks < MaxTicks
    /\ twin' = [twin EXCEPT !.cells = tick(twin.width, twin.height, twin.cells),
                            !.ticks = twin.ticks + 1]
    /\ UNCHANGED <<width, height, cells, rendered, ticks, loopVars, probe>>

(* universe.tick(), one loop iteration at a time.                          *)
(* `let mut next = self.cells.clone();` and entry into the loops           *)
TickBegin(max) ==
    /\ pc = "idle"
    /\ ticks < max
    /\ next' = cells
    /\ loop_row' = 0
    /\ loop_column' = 0
    /\ pc' = "loop"
    /\ rendered' = <<>>
    /\ UNCHANGED <<width, height, cells, ticks, twin, probe>>

(* the position after (loop_row, loop_column) in                           *)
(* `for row in 0..self.height { for column in 0..self.width {`             *)
NextPosition ==
    IF loop_column + 1 < width
    THEN <<loop_row, loop_column + 1>>
    ELSE <<loop_row + 1, 0>>

(* one pass through the body of the inner loop *)
TickCell_in_place ==
    /\ pc = "loop"
    /\ loop_row < height
    /\ LET idx == get_index(width, loop_row, loop_column)
           cell == cells[idx]
           live_neighbors == live_neighbor_count(width, height, cells, loop_row, loop_column)
       IN  /\ cells' = [cells EXCEPT ![idx] = next_cell(cell, live_neighbors)]
           /\ next' = [next EXCEPT ![idx] = next_cell(cell, live_neighbors)]
    /\ loop_row' = NextPosition[1]
    /\ loop_column' = NextPosition[2]
    /\ UNCHANGED <<width, height, rendered, ticks, twin, pc, probe>>
TickCell ==
    /\ pc = "loop"
    /\ loop_row < height
    /\ LET idx == get_index(width, loop_row, loop_column)
           cell == cells[idx]
           live_neighbors == live_neighbor_count(width, height, cells, loop_row, loop_column)
       IN  next' = [next EXCEPT ![idx] = next_cell(cell, live_neighbors)]
    /\ loop_row' = NextPosition[1]
    /\ loop_column' = NextPosition[2]
    /\ UNCHANGED <<width, height, cells, rendered, ticks, twin, pc, probe>>

(* `self.cells = next;` after the loops *)
TickEnd ==
    /\ pc = "loop"
    /\ loop_row >= height
    /\ cells' = next
    /\ ticks' = ticks + 1
    /\ pc' = "idle"
    /\ next' = <<>>
    /\ loop_row' = 0
    /\ loop_column' = 0
    /\ UNCHANGED <<width, height, rendered, twin, probe>>

(* self.get_index(row, column) followed by the lookup self.cells[idx] that *)
(* each caller makes; get_index has no failure path of its own, the Vec    *)
(* index panics when idx is not below the length.                          *)
NoProbe == [row |-> 0, column |-> 0, idx |-> 0, lookup |-> "none"]
GetIndex ==
    /\ \E r \in 0 .. height + MaxOver - 1, k \in 0 .. width + MaxOver - 1 :
          LET idx == get_index(width, r, k)
          IN  probe' = [row |-> r, column |-> k, idx |-> idx,
                        lookup |-> IF idx < VecLen(cells) THEN "cell" ELSE "panic"]
    /\ UNCHANGED <<width, height, cells, rendered, ticks, twin, loopVars>>

(* no tick call in progress, no get_index call made yet *)
Idle ==
    /\ pc = "idle"
    /\ next = <<>>
    /\ loop_row = 0
    /\ loop_column = 0
    /\ probe = NoProbe

----------------------------------------------------------------------------
(* Spec: two universes from Universe::new, ticked independently; the first *)
(* is also rendered.                                                       *)

Init ==
    /\ \E u \in new :
          /\ width = u.width
          /\ height = u.height
          /\ cells = u.cells
    /\ \E u \in new :
          twin = [width |-> u.width, height |-> u.height, cells |-> u.cells, ticks |-> 0]
    /\ rendered = <<>>
    /\ ticks = 0
    /\ Idle

Next == Tick(MaxTicks) \/ Render \/ TickTwin

Spec == Init /\ [][Next]_vars

----------------------------------------------------------------------------
(* SpecGrid: tick and render applied to small grids.  The initial grids    *)
(* are all the 2 x 2 patterns (the empty grid, a single cell, a pair, the  *)
(* 2x2 block, ...) placed at every offset of an h x w torus,               *)
(* MinDim <= h, w <= MaxDim; ticks grow them along the torus.              *)

Dims == MinDim .. MaxDim
Patterns == [Window \X Window -> Cell]

Stamp(w, h, pat, r0, c0) ==
    [idx \in 0 .. w * h - 1 |->
        LET dr == ((idx \div w) - r0 + h) % h
            dc == ((idx % w) - c0 + w) % w
        IN  IF dr \in Window /\ dc \in Window THEN pat[<<dr, dc>>] ELSE Dead]

InitGrid ==
    /\ width \in Dims
    /\ height \in Dims
    /\ \E pat \in Patterns, r0 \in 0 .. height - 1, c0 \in 0 .. width - 1 :
          cells = Stamp(width, height, pat, r0, c0)
    /\ twin = [width |-> width, height |-> height, cells |-> cells, ticks |-> 0]
    /\ rendered = <<>>
    /\ ticks = 0
    /\ Idle

NextGrid == Tick(MaxGridTicks) \/ Render

SpecGrid == InitGrid /\ [][NextGrid]_vars

(* SpecStep: the same grids, with tick taken one loop iteration at a time; *)
(* render can only be called between tick calls (tick holds &mut self).    *)
NextStep ==
    \/ TickBegin(MaxStepTicks)
    \/ TickCell
    \/ TickEnd
    \/ (pc = "idle" /\ Render)

SpecStep == InitGrid /\ [][NextStep]_vars

(* SpecIndex: get_index applied to coordinates in and out of range. *)
NextIndex == GetIndex

SpecIndex == InitGrid /\ [][NextIndex]_vars

----------------------------------------------------------------------------
(* Reference definitions used to state the properties: Conway's rule on    *)
(* the torus, written independently of the code above.                     *)

Row(w, idx) == idx \div w
Col(w, idx) == idx % w
Rows == 0 .. height - 1
Cols == 0 .. width - 1

(* the cell at (row, column) of grid c, coordinates taken modulo the sides *)
At(w, h, c, row, column) == c[((row + h) % h) * w + ((column + w) % w)]

(* number of Alive cells among the 8 toroidal neighbours of (row, column) *)
RefCount(w, h, c, row, column) ==
      At(w, h, c, row - 1, column - 1) + At(w, h, c, row - 1, column)
    + At(w, h, c, row - 1, column + 1) + At(w, h, c, row, column - 1)
    + At(w, h, c, row, column + 1) + At(w, h, c, row + 1, column - 1)
    + At(w, h, c, row + 1, column) + At(w, h, c, row + 1, column + 1)

(* one synchronous Game-of-Life generation on the torus *)
LifeStep(w, h, c) ==
    [idx \in DOMAIN c |->
        LET n == RefCount(w, h, c, Row(w, idx), Col(w, idx))
        IN  IF c[idx] = Alive
            THEN (IF n \in {2, 3} THEN Alive ELSE Dead)
            ELSE (IF n = 3 THEN Alive ELSE Dead)]

AliveSet(c) == {idx \in DOMAIN c : c[idx] = Alive}
AllDead(c) == AliveSet(c) = {}

(* the grid c moved by (a, b) with wraparound: cell (r, k) goes to          *)
(* ((r + a) mod h, (k + b) mod w)                                          *)
Translate(w, h, c, a, b) ==
    [idx \in DOMAIN c |-> At(w, h, c, Row(w, idx) - a, Col(w, idx) - b)]

(* the four cells of the 2x2 block whose top-left corner is (row, column) *)
Block(w, h, row, column) ==
    {((row + dr) % h) * w + ((column + dc) % w) : dr \in {0, 1}, dc \in {0, 1}}

TickStep == ticks' = ticks + 1

----------------------------------------------------------------------------
(* Properties *)

(* C1: every tick sets every cell to the state Conway's rule gives it on   *)
(* the torus, counting the 8 distinct wrapped neighbours in the pre-tick   *)
(* grid: tick equals the reference synchronous Game-of-Life step.          *)
C1_TickIsLifeStep ==
    [][TickStep => cells' = LifeStep(width, height, cells)]_vars

(* C2: for every valid (row, column), live_neighbor_count returns exactly  *)
(* the number of Alive cells among the 8 toroidal neighbours, the column   *)
(* offset taken from delta_column and the row offset from delta_row.       *)
C2_CountIsNeighbourCount ==
    \A row \in Rows, column \in Cols :
        live_neighbor_count(width, height, cells, row, column)
            = RefCount(width, height, cells, row, column)

(* C3: on a grid of at least 4 x 4, a 2x2 block of Alive cells with every  *)
(* other cell Dead is unchanged by tick.                                   *)
C3_BlockIsStillLife ==
    [][(/\ TickStep
        /\ width >= 4 /\ height >= 4
        /\ \E row \in Rows, column \in Cols :
              AliveSet(cells) = Block(width, height, row, column))
       => cells' = cells]_vars

(* C4: if exactly one cell is Alive, that cell is Dead after one tick. *)
C4_LonelyCellDies ==
    [][(TickStep /\ Cardinality(AliveSet(cells)) = 1)
       => \A idx \in AliveSet(cells) : cells'[idx] = Dead]_vars

(* C5: the all-Dead grid is a fixed point: once every cell is Dead, every  *)
(* cell is Dead after each further step, so after any number of ticks.     *)
C5_AllDeadStaysDead ==
    [][AllDead(cells) => AllDead(cells')]_vars

(* C5 witness: a universe that started all-Dead has been ticked twice. *)
C5_Witness ==
    AllDead(twin.cells) /\ twin.ticks = 0 /\ ticks >= 2 /\ AllDead(cells)

(* C6: live_neighbor_count is invariant under wrapped translation: the     *)
(* count at (r, c) in G equals the count at ((r+a) mod height,             *)
(* (c+b) mod width) in G translated by (a, b), for every shift and cell.   *)
C6_CountTranslationInvariant ==
    \A a \in Rows, b \in Cols :
        \A moved \in {Translate(width, height, cells, a, b)} :
            \A r \in Rows, c \in Cols :
                live_neighbor_count(width, height, cells, r, c)
                    = live_neighbor_count(width, height, moved,
                                          (r + a) % height, (c + b) % width)

(* C6 witness: the corner (0,0) has live neighbours across the wraparound, *)
(* and an interior cell of a translated grid carries the same pattern.     *)
C6_Witness ==
    /\ cells[get_index(width, height - 1, width - 1)] = Alive
    /\ live_neighbor_count(width, height, cells, 0, 0) > 0
    /\ live_neighbor_count(width, height, Translate(width, height, cells, 1, 1), 1, 1)
          = live_neighbor_count(width, height, cells, 0, 0)

(* C7: for every valid (row, column), live_neighbor_count is between 0 and *)
(* 8 inclusive (so the u8 accumulator cannot overflow).                    *)
C7_CountInRange ==
    \A row \in Rows, column \in Cols :
        live_neighbor_count(width, height, cells, row, column) \in 0 .. 8

(* C7 witness: some cell reaches the maximum count 8. *)
C7_Witness ==
    \E row \in Rows, column \in Cols :
        live_neighbor_count(width, height, cells, row, column) = 8

(* C8: two universes built by the constructor and advanced by the same     *)
(* number of ticks hold identical cells (and dimensions).                  *)
C8_Deterministic ==
    ticks = twin.ticks =>
        /\ cells = twin.cells
        /\ width = twin.width
        /\ height = twin.height

(* C8 witness: both universes have been ticked the same positive number of *)
(* times.                                                                  *)
C8_Witness == ticks = twin.ticks /\ ticks >= 2

(* C9: the constructor produces width = height = 64 and a cell at flat     *)
(* index i that is Alive exactly when i % 2 = 0 or i % 7 = 0, for every i  *)
(* in [0, width * height).                                                 *)
C9_ConstructorSeeds ==
    ticks = 0 =>
        /\ width = 64 /\ height = 64
        /\ DOMAIN cells = 0 .. width * height - 1
        /\ \A i \in 0 .. width * height - 1 :
              cells[i] = (IF i % 2 = 0 \/ i % 7 = 0 THEN Alive ELSE Dead)
        /\ cells[0] = Alive /\ cells[1] = Dead /\ cells[7] = Alive /\ cells[9] = Dead

(* C9 witness: the freshly constructed universe, with both kinds of cell. *)
C9_Witness ==
    ticks = 0 /\ VecLen(cells) = 4096 /\ cells[7] = Alive /\ cells[9] = Dead

(* C10: render returns exactly height lines, each of exactly width glyphs  *)
(* followed by a line break; the glyph at line r, position c is the black  *)
(* square iff cell r*width+c is Alive and the white square iff it is Dead. *)
C10_RenderShape ==
    rendered # <<>> =>
        /\ Len(rendered) = height * (width + 1)
        /\ \A r \in Rows :
              /\ rendered[r * (width + 1) + width + 1] = "\n"
              /\ \A c \in Cols :
                    /\ rendered[r * (width + 1) + c + 1] \in {"◼", "◻"}
                    /\ rendered[r * (width + 1) + c + 1] = "◼" <=> cells[r * width + c] = Alive
                    /\ rendered[r * (width + 1) + c + 1] = "◻" <=> cells[r * width + c] = Dead

(* C10 witness: a rendered grid, after a tick, holding both kinds of cell. *)
C10_Witness ==
    /\ rendered # <<>>
    /\ ticks > 0
    /\ \E i \in DOMAIN cells : cells[i] = Alive
    /\ \E i \in DOMAIN cells : cells[i] = Dead

(* the transition table of the rule, by current state and count *)
RuleTable(cell, n) ==
    IF cell = Alive
    THEN (IF n < 2 THEN Dead ELSE IF n \in {2, 3} THEN Alive ELSE Dead)
    ELSE (IF n = 3 THEN Alive ELSE Dead)

(* a step in which render returned its string *)
RenderStep == rendered' = render(width, cells) /\ ticks' = ticks /\ twin' = twin

(* C11: in every state reached from the constructor by tick and render     *)
(* calls, cells has width * height elements and width and height keep the  *)
(* values set at construction (64, both > 0).                              *)
C11_LengthIsWidthTimesHeight ==
    /\ DOMAIN cells = 0 .. width * height - 1
    /\ VecLen(cells) = width * height
    /\ width = 64 /\ height = 64
    /\ width > 0 /\ height > 0

(* C11 witness: a universe that has been ticked and then rendered. *)
C11_Witness == ticks >= 2 /\ rendered # <<>> /\ VecLen(cells) = 4096

(* C13: render leaves the universe unchanged: width, height and every cell *)
(* are the same after a render call as before it.                          *)
C13_RenderIsPure ==
    [][RenderStep => (cells' = cells /\ width' = width /\ height' = height)]_vars

(* C13 witness: a universe rendered between ticks that holds the same grid *)
(* as the twin, which was ticked as often and never rendered.              *)
C13_Witness ==
    rendered # <<>> /\ ticks >= 1 /\ twin.ticks = ticks /\ cells = twin.cells

(* C15: a cell is never counted as its own neighbour: with width >= 3 and  *)
(* height >= 3, live_neighbor_count(row, column) is the same whether cell  *)
(* (row, column) is Alive or Dead, all other cells being equal.            *)
C15_SelfNotCounted ==
    (width >= 3 /\ height >= 3) =>
        \A row \in Rows, column \in Cols :
            live_neighbor_count(width, height,
                [cells EXCEPT ![get_index(width, row, column)] = Alive], row, column)
          = live_neighbor_count(width, height,
                [cells EXCEPT ![get_index(width, row, column)] = Dead], row, column)

(* C16: the match in tick implements the transition table for every        *)
(* (state, n), n in 0..8: (Alive, n<2) -> Dead, (Alive, 2|3) -> Alive,     *)
(* (Alive, n>3) -> Dead, (Dead, 3) -> Alive, (Dead, n # 3) -> Dead; the    *)
(* catch-all arm is reached only by a Dead cell with n # 3; and every tick *)
(* gives each cell the table's value for the count live_neighbor_count     *)
(* returned.                                                               *)
C16_MatchIsTable ==
    [][/\ \A cell \in Cell, n \in 0 .. 8 :
            /\ next_cell(cell, n) = RuleTable(cell, n)
            /\ match_arm(cell, n) = 5 => (cell = Dead /\ n # 3)
            /\ cell = Alive => match_arm(cell, n) \in {1, 2, 3}
       /\ TickStep =>
            \A idx \in DOMAIN cells :
                cells'[idx] = RuleTable(cells[idx],
                    live_neighbor_count(width, height, cells, Row(width, idx), Col(width, idx)))
      ]_vars

(* C16 witness: after a tick, a grid in which the next tick fires the      *)
(* death, survival, birth and catch-all arms.                              *)
C16_Witness ==
    /\ ticks >= 1
    /\ \A arm \in {2, 3, 4, 5} :
          \E idx \in DOMAIN cells :
              match_arm(cells[idx],
                  live_neighbor_count(width, height, cells,
                                      Row(width, idx), Col(width, idx))) = arm

(* C17: every index tick and live_neighbor_count compute through get_index *)
(* lies in [0, cells.length): the wrapped neighbour row is < height and    *)
(* the wrapped neighbour column is < width, in every reachable state.      *)
C17_IndicesInBounds ==
    \A row \in Rows, column \in Cols :
        /\ get_index(width, row, column) \in 0 .. VecLen(cells) - 1
        /\ \A delta_row \in {height - 1, 0, 1}, delta_column \in {width - 1, 0, 1} :
              LET nr == neighbour_row(height, row, delta_row)
                  nc == neighbour_column(width, column, delta_row, delta_column)
              IN  /\ nr \in 0 .. height - 1
                  /\ nc \in 0 .. width - 1
                  /\ get_index(width, nr, nc) \in 0 .. VecLen(cells) - 1

(* C17 witness: after a tick, the neighbour of the last cell wraps to      *)
(* index 0 and the neighbour of the first cell wraps to the last index.    *)
C17_Witness ==
    /\ ticks >= 1
    /\ get_index(width, neighbour_row(height, height - 1, 1),
                 neighbour_column(width, width - 1, 1, 1)) = 0
    /\ get_index(width, neighbour_row(height, 0, height - 1),
                 neighbour_column(width, 0, height - 1, width - 1)) = VecLen(cells) - 1

(* C12: index computation with an out-of-range coordinate (row >= height   *)
(* or column >= width) is surfaced as a failure and is never silently      *)
(* mapped onto another in-range cell of the grid.                          *)
C12_OutOfRangeFails ==
    (probe.lookup # "none" /\ (probe.row >= height \/ probe.column >= width))
        => probe.lookup = "panic"

(* C14: tick is double-buffered: while tick iterates, self.cells is never  *)
(* written; the buffer holds the new value of each cell already visited,   *)
(* computed from the pre-tick grid, and the old value of the others; and   *)
(* the single final assignment makes cells the complete next generation.   *)
C14_DoubleBuffered ==
    [][/\ pc = "loop" =>
            \A idx \in DOMAIN next :
                next[idx] = IF idx < get_index(width, loop_row, loop_column)
                            THEN tick(width, height, cells)[idx]
                            ELSE cells[idx]
       /\ (pc = "loop" /\ pc' = "loop") => cells' = cells
       /\ (pc = "loop" /\ pc' = "idle") => cells' = tick(width, height, cells)
      ]_vars

(* C14 witness: the middle of a pass, the buffer already differing from    *)
(* the universe's cells.                                                   *)
C14_Witness ==
    pc = "loop" /\ loop_row >= 1 /\ loop_row < height /\ next # cells

====
